---- MODULE Spec2Model ----
(***************************************************************************)
(* A model of etoro-extractor: the browser session lifecycle of            *)
(* EToroScraper (scraper.py), the navigation pipeline of                   *)
(* get_portfolio_data, the markup extraction of                            *)
(* _extract_portfolio_from_page, the text fallback                         *)
(* _extract_assets_from_text, the scoped caller get_portfolio              *)
(* (portfolio.py), Config.get_profile_url (config.py) and                  *)
(* format_portfolio_table (formatters.py).                                 *)
(*                                                                         *)
(* Python strings are sequences of one-character strings.  A dict is a     *)
(* function whose domain is the set of keys that are present.              *)
(*                                                                         *)
(* Every call of the browser or of the environment (launching Chrome, a    *)
(* WebDriver command, os.path.exists, what a selector finds) is a          *)
(* nondeterministic choice among what it can do, exceptions included.  A   *)
(* method's locals, and the record of what the running call has done,      *)
(* last until the method returns: the step that returns clears them, so    *)
(* the properties of a call are stated about the states up to its return   *)
(* (pc = "setup_ret", "setup_raise", "gpd_ret", "ex_ret", "avail_ret").    *)
(* The page shown changes on navigation and on a click that went through;  *)
(* asynchronous exceptions (KeyboardInterrupt) are not modelled.           *)
(***************************************************************************)
EXTENDS Integers, Sequences, FiniteSets, TLC

VARIABLES
    mode,          \* who drives the program: get_portfolio ("scoped"), a caller of the class's
                   \* methods ("direct"), a caller of the two extraction methods ("unit"),
                   \* a caller of Config.get_profile_url ("config"), or a caller of
                   \* format_portfolio_table ("format")
    pc,            \* position of the single thread of control
    calls,         \* direct, config and format mode: number of calls started so far (the
                   \* caller of the extraction methods goes on calling without end)
    driver,        \* EToroScraper.driver: 0 is None, b > 0 is the b-th launched browser
    launched,      \* number of browser processes launched so far
    quits,         \* quits[b]: number of quit() calls received by browser b
    attempts,      \* _setup_driver: the attempts made by the running call, in order, each with its success
    alt_i,         \* _setup_driver: index into chrome_paths of the for loop
    entered,       \* get_portfolio: __enter__ has returned
    steps,         \* get_portfolio_data: the pipeline steps the running/last call has performed
    page,          \* the document the session's browser currently shows
    captcha_present, \* get_portfolio_data local
    polls,         \* get_portfolio_data: iterations of the polling loop started, until the
                   \* selector loop has ended
    sel_i,         \* get_portfolio_data: index into portfolio_selectors
    elements,      \* get_portfolio_data: the elements the pass of the selector loop that set
                   \* portfolio_element went through, the chosen one last; empty before
    passed_over,   \* get_portfolio_data: whether a pass of the selector loop went on to the
                   \* next selector although its list held a displayed and enabled element
                   \* ("" for no, "raised" and "missed" as PassedOver tells them apart)
    portfolio_element, \* get_portfolio_data local: the selector and list index of the match, NoElement for None
    clicks,        \* get_portfolio_data: the click attempts made, in order
    still_present, \* get_portfolio_data local: the last poll saw a visible challenge
    outcome,       \* get_portfolio_data: what the last of driver.get, the wait and the page_source read did
    why,           \* the log line of the last get_portfolio_data call that explains a None
    pd,            \* _extract_portfolio_from_page / _extract_available_data local dict
    gpd_result,    \* outcome of the last get_portfolio_data call
    gp_result,     \* outcome of get_portfolio
    ex_end,        \* _extract_portfolio_from_page: where the running call left its try block
    first_run,     \* the caller of _extract_portfolio_from_page: how its first call ended,
                   \* and the record that call returned
    username,      \* Config.get_profile_url: its argument
    profile_url,   \* Config.get_profile_url: what the last call returned
    portfolio_data, \* format_portfolio_table: its argument
    output         \* format_portfolio_table: what the last call returned

vars == <<mode, pc, calls, driver, launched, quits, attempts, alt_i, entered,
          steps, page, captcha_present, polls, sel_i, elements, passed_over,
          portfolio_element, clicks, still_present, outcome, why, pd, gpd_result, gp_result,
          ex_end, first_run, username, profile_url, portfolio_data, output>>

\* The state of the callers of the functions that hold no state of their own.
PureVars == <<username, profile_url, portfolio_data, output>>

\* What only the extraction steps change.
ExtractVars == <<ex_end, first_run>>

(***************************************************************************)
(* Bounds of the model.                                                    *)
(***************************************************************************)
MaxCalls == 3

(***************************************************************************)
(* Strings.                                                                *)
(***************************************************************************)
UpperLetters == <<"A","B","C","D","E","F","G","H","I","J","K","L","M",
                  "N","O","P","Q","R","S","T","U","V","W","X","Y","Z">>

LowerChar(c) ==
    LET lower == <<"a","b","c","d","e","f","g","h","i","j","k","l","m",
                   "n","o","p","q","r","s","t","u","v","w","x","y","z">>
    IN  IF \E i \in 1..Len(UpperLetters) : UpperLetters[i] = c
        THEN lower[CHOOSE i \in 1..Len(UpperLetters) : UpperLetters[i] = c]
        ELSE c

\* str.lower()
Lower(s) == [i \in 1..Len(s) |-> LowerChar(s[i])]

\* sub in s
Contains(s, sub) ==
    \E i \in 0..(Len(s) - Len(sub)) : SubSeq(s, i + 1, i + Len(sub)) = sub

IsSpace(c) == c \in {" ", "\n", "\t"}

\* str.strip()
Strip(s) ==
    IF \A i \in 1..Len(s) : IsSpace(s[i]) THEN <<>>
    ELSE LET first == CHOOSE i \in 1..Len(s) :
                          ~IsSpace(s[i]) /\ \A j \in 1..(i - 1) : IsSpace(s[j])
             last  == CHOOSE i \in 1..Len(s) :
                          ~IsSpace(s[i]) /\ \A j \in (i + 1)..Len(s) : IsSpace(s[j])
         IN  SubSeq(s, first, last)

(***************************************************************************)
(* Browser startup: EToroScraper._setup_driver.                            *)
(***************************************************************************)
NumChromePaths == 5
PrimaryRank == 0
MinimalRank == NumChromePaths + 1

\* The machine runs no more than MaxBrowsers browser processes in all.
MaxBrowsers == 3

\* What one "Service(...); webdriver.Chrome(...); implicitly_wait(10)" block can do:
\* run to its end, raise before a browser process exists, or raise in
\* implicitly_wait after the browser was launched and bound to self.driver.
\* Once MaxBrowsers were launched, a launch fails.
PossibleOutcomes ==
    IF launched < MaxBrowsers THEN {"ok", "launch_fail", "wait_fail"}
    ELSE {"launch_fail"}

Launches(o) == o # "launch_fail"

\* The state change common to the three attempt blocks.
Attempt(rank, o) ==
    /\ attempts' = Append(attempts, [rank |-> rank, ok |-> o = "ok"])
    /\ launched' = IF Launches(o) THEN launched + 1 ELSE launched
    /\ quits'    = IF Launches(o) THEN Append(quits, 0) ELSE quits
    /\ driver'   = IF Launches(o) THEN launched + 1 ELSE driver

PipelineVars == <<steps, page, captcha_present, polls, sel_i, elements, passed_over,
                  portfolio_element,
                  clicks, still_present, outcome, why, pd, gpd_result, ExtractVars>>

\* __enter__ is entered: by get_portfolio's with statement, or by a direct caller.
EnterCall ==
    /\ \/ /\ mode = "scoped" /\ pc = "gp_with"
          /\ calls' = calls
       \/ /\ mode = "direct" /\ pc = "idle" /\ calls < MaxCalls
          /\ calls' = calls + 1
    /\ pc' = "setup_primary"
    /\ attempts' = <<>>
    /\ alt_i' = 0
    /\ UNCHANGED <<mode, PureVars, driver, launched, quits, entered, gp_result>>
    /\ UNCHANGED PipelineVars

\* The primary block ends normally, or its except clause starts the loop.
AfterPrimary(o) == IF o = "ok" THEN "setup_ret" ELSE "setup_alt"

SetupPrimary ==
    /\ pc = "setup_primary"
    /\ \E o \in PossibleOutcomes :
          /\ Attempt(PrimaryRank, o)
          /\ pc' = AfterPrimary(o)
    /\ alt_i' = 1
    /\ UNCHANGED <<mode, PureVars, calls, entered, gp_result>>
    /\ UNCHANGED PipelineVars

\* The loop without its "return".
AfterAlternateNoReturn(o) == "setup_alt"

\* In the loop: "return" after a success, "continue" after a failure.
AfterAlternate(o) == IF o = "ok" THEN "setup_ret" ELSE "setup_alt"

\* One iteration of "for chrome_path in chrome_paths" (os.path.exists decides
\* whether the path is tried), or the loop's end.
SetupAlternate ==
    /\ pc = "setup_alt"
    /\ IF alt_i > NumChromePaths
       THEN /\ pc' = "setup_minimal"
            /\ UNCHANGED <<attempts, launched, quits, driver, alt_i>>
       ELSE /\ alt_i' = alt_i + 1
            /\ \E exists \in BOOLEAN :
                  IF exists
                  THEN \E o \in PossibleOutcomes :
                          /\ Attempt(alt_i, o)
                          /\ pc' = AfterAlternate(o)
                  ELSE /\ pc' = "setup_alt"
                       /\ UNCHANGED <<attempts, launched, quits, driver>>
    /\ UNCHANGED <<mode, PureVars, calls, entered, gp_result>>
    /\ UNCHANGED PipelineVars

\* The last failure swallowed instead of raised.
AfterMinimalSwallowed(o) == "setup_ret"

\* The minimal block: "return" after a success, else raise RuntimeError.
AfterMinimal(o) == IF o = "ok" THEN "setup_ret" ELSE "setup_raise"

SetupMinimal ==
    /\ pc = "setup_minimal"
    /\ \E o \in PossibleOutcomes :
          /\ Attempt(MinimalRank, o)
          /\ pc' = AfterMinimal(o)
    /\ UNCHANGED <<mode, PureVars, calls, alt_i, entered, gp_result>>
    /\ UNCHANGED PipelineVars

\* _setup_driver returns, and __enter__ returns self.
EnterReturn ==
    /\ pc = "setup_ret"
    /\ pc' = IF mode = "scoped" THEN "gpd_entry" ELSE "idle"
    /\ entered' = IF mode = "scoped" THEN TRUE ELSE entered
    /\ attempts' = <<>>
    /\ alt_i' = 0
    /\ UNCHANGED <<mode, PureVars, calls, driver, launched, quits, gp_result>>
    /\ UNCHANGED PipelineVars

\* RuntimeError("Could not start Chrome browser...") leaves _setup_driver and
\* __enter__; in get_portfolio the with body and __exit__ are skipped and the
\* except clause re-raises.
EnterRaise ==
    /\ pc = "setup_raise"
    /\ pc' = IF mode = "scoped" THEN "done" ELSE "idle"
    /\ gp_result' = IF mode = "scoped" THEN "raise_browser_unavailable" ELSE gp_result
    /\ attempts' = <<>>
    /\ alt_i' = 0
    /\ UNCHANGED <<mode, PureVars, calls, driver, launched, quits, entered>>
    /\ UNCHANGED PipelineVars

\* A release that forgets the browser.
ExitQuitsNever == FALSE

\* if self.driver
ExitQuits == driver # 0

\* __exit__: quit the browser held in self.driver, if any.  It returns None,
\* so an exception of the with body goes on to the caller.
ExitCall ==
    /\ \/ /\ mode = "scoped" /\ pc = "with_exit"
          /\ calls' = calls
          /\ pc' = "gp_after_with"
       \/ /\ mode = "direct" /\ pc = "idle" /\ calls < MaxCalls
          /\ calls' = calls + 1
          /\ pc' = "idle"
    /\ quits' = IF ExitQuits THEN [quits EXCEPT ![driver] = @ + 1] ELSE quits
    /\ UNCHANGED <<mode, PureVars, driver, launched, attempts, alt_i, entered, gp_result>>
    /\ UNCHANGED PipelineVars

(***************************************************************************)
(* Documents.  An element is what a selector lookup yields: has = FALSE    *)
(* is "no match" (None).  A row is one ".et-table-row.clickable-row"       *)
(* element, given by what each of the lookups made in                      *)
(* _extract_etoro_asset_info finds in it.                                  *)
(***************************************************************************)
NoElem == [has |-> FALSE, text |-> <<>>, classes |-> {}]
Elem(text, classes) == [has |-> TRUE, text |-> text, classes |-> classes]

NoAvatar == [has |-> FALSE, src |-> <<>>, has_alt |-> FALSE, alt |-> <<>>]

Cell(normal, rate) == [normal |-> normal, rate |-> rate]

T_AAPL    == <<"A","A","P","L">>
T_BTC     == <<"B","T","C">>
T_padded  == <<" ","B","T","C","\n">>
T_blank   == <<" ","\n">>
T_Long    == <<"L","o","n","g">>
T_pct     == <<"5","%">>
T_neg     == <<"-","2","%">>
T_rate    == <<"1",".","5">>
T_src     == <<"a",".","p","n","g">>
T_Apple   == <<"A","p","p","l","e">>

\* The name lookups of a row: <<primary selector, fallback selector>>.
NameVariants ==
    { <<Elem(T_AAPL, {}), NoElem>>,            \* primary matches
      <<NoElem, Elem(T_padded, {})>>,          \* only the fallback matches
      <<NoElem, NoElem>>,                      \* neither matches
      <<Elem(T_blank, {}), Elem(T_BTC, {})>>,  \* primary matches with blank text
      <<NoElem, Elem(<<>>, {})>> }             \* fallback matches with empty text

\* The other lookups of a row: description, cells, avatar.
NoCells == <<>>
FourCells ==
    << Cell(Elem(T_Long, {}), NoElem),
       Cell(Elem(T_pct, {}), NoElem),
       Cell(Elem(T_neg, {"et-font-weight-normal", "et-negative"}), NoElem),
       Cell(Elem(T_pct, {}), NoElem) >>
SixCells ==
    << Cell(Elem(T_Long, {}), NoElem),
       Cell(NoElem, NoElem),
       Cell(Elem(T_pct, {"et-font-weight-normal", "et-positive"}), NoElem),
       Cell(Elem(T_pct, {}), NoElem),
       Cell(NoElem, Elem(T_rate, {})),
       Cell(NoElem, Elem(T_rate, {})) >>

BodyVariants ==
    { [desc |-> NoElem, cells |-> NoCells, avatar |-> NoAvatar, throws |-> FALSE],
      [desc |-> Elem(T_Apple, {}), cells |-> FourCells, avatar |-> NoAvatar, throws |-> FALSE],
      [desc |-> Elem(T_Apple, {}), cells |-> SixCells,
       avatar |-> [has |-> TRUE, src |-> T_src, has_alt |-> FALSE, alt |-> <<>>],
       throws |-> FALSE],
      [desc |-> NoElem, cells |-> FourCells, avatar |-> NoAvatar, throws |-> TRUE] }

MkRow(n, b) ==
    [title |-> n[1], bold |-> n[2], desc |-> b.desc, cells |-> b.cells,
     avatar |-> b.avatar, throws |-> b.throws]

\* Every name variant in a row with four cells, every body under a good
\* name, and a row with every field but a name.
RowFixtures ==
    { MkRow(n, [desc |-> Elem(T_Apple, {}), cells |-> FourCells, avatar |-> NoAvatar,
                throws |-> FALSE]) : n \in NameVariants }
    \cup { MkRow(<<Elem(T_AAPL, {}), NoElem>>, b) : b \in BodyVariants }
    \cup { MkRow(<<NoElem, NoElem>>, b) : b \in {c \in BodyVariants : Len(c.cells) = 6} }

MaxRows == 2

RECURSIVE SeqsUpTo(_, _)
SeqsUpTo(S, n) ==
    IF n = 0 THEN {<<>>}
    ELSE LET shorter == SeqsUpTo(S, n - 1)
         IN  shorter \cup { Append(q, x) : q \in {r \in shorter : Len(r) = n - 1}, x \in S }

(***************************************************************************)
(* Dicts and optional strings.                                             *)
(***************************************************************************)
EmptyDict == [k \in {} |-> <<>>]
HasKey(d, k) == k \in DOMAIN d
\* d[k] = v
Put(d, k, v) == (k :> v) @@ d

NoneStr == [has |-> FALSE, text |-> <<>>]
Some(t) == [has |-> TRUE, text |-> t]

\* The value _extract_etoro_asset_info returns for a discarded row.
NoneAsset == [none |-> TRUE]

\* Python truthiness of what _extract_etoro_asset_info returned.
Truthy(a) == a # NoneAsset /\ DOMAIN a # {}

K_name == "name"

S_positive == <<"p","o","s","i","t","i","v","e">>
S_negative == <<"n","e","g","a","t","i","v","e">>

(***************************************************************************)
(* _extract_etoro_asset_info: one row to one dict, or None.                *)
(***************************************************************************)
\* Element.get_text(strip=True) of an element holding one text node.
GetText(e) == Strip(e.text)

WithName(a, row) ==
    IF row.title.has THEN Put(a, K_name, GetText(row.title))
    ELSE IF row.bold.has THEN Put(a, K_name, GetText(row.bold))
    ELSE a

\* A default in place of a description that is not there.
WithDescriptionDefaulted(a, row) ==
    Put(a, "description", IF row.desc.has THEN GetText(row.desc) ELSE <<>>)

WithDescription(a, row) ==
    IF row.desc.has THEN Put(a, "description", GetText(row.desc)) ELSE a

WithDirection(a, row) ==
    IF Len(row.cells) > 0 /\ row.cells[1].normal.has /\ GetText(row.cells[1].normal) # <<>>
    THEN Put(a, "direction", GetText(row.cells[1].normal))
    ELSE a

WithInvested(a, cells) ==
    IF cells[2].normal.has
    THEN Put(a, "invested_percentage", GetText(cells[2].normal)) ELSE a

\* "else" where the code has "elif": an unmarked element counts as negative.
WithProfitLossDefaulted(a, cells) ==
    IF cells[3].normal.has
    THEN LET b == Put(a, "profit_loss_percentage", GetText(cells[3].normal))
         IN  IF "et-positive" \in cells[3].normal.classes
             THEN Put(b, "profit_loss_status", S_positive)
             ELSE Put(b, "profit_loss_status", S_negative)
    ELSE a

WithProfitLoss(a, cells) ==
    IF cells[3].normal.has
    THEN LET b == Put(a, "profit_loss_percentage", GetText(cells[3].normal))
         IN  IF "et-positive" \in cells[3].normal.classes
             THEN Put(b, "profit_loss_status", S_positive)
             ELSE IF "et-negative" \in cells[3].normal.classes
             THEN Put(b, "profit_loss_status", S_negative)
             ELSE b
    ELSE a

WithValue(a, cells) ==
    IF cells[4].normal.has
    THEN Put(a, "value_percentage", GetText(cells[4].normal)) ELSE a

WithPrices(a, cells) ==
    IF Len(cells) >= 6
    THEN LET b == IF cells[5].rate.has
                  THEN Put(a, "sell_price", GetText(cells[5].rate)) ELSE a
         IN  IF cells[6].rate.has
             THEN Put(b, "buy_price", GetText(cells[6].rate)) ELSE b
    ELSE a

WithColumns(a, row) ==
    IF Len(row.cells) >= 4
    THEN WithPrices(WithValue(WithProfitLoss(WithInvested(a, row.cells), row.cells),
                              row.cells), row.cells)
    ELSE a

WithAvatar(a, row) ==
    IF row.avatar.has /\ row.avatar.src # <<>>
    THEN Put(Put(a, "avatar_url", row.avatar.src), "alt_text",
             IF row.avatar.has_alt THEN row.avatar.alt ELSE <<>>)
    ELSE a

\* "asset_info.get('name')" is truthy
HasName(a) == HasKey(a, K_name) /\ a[K_name] # <<>>

\* The dict returned whether or not it has a name.
AssetInfoResultUnfiltered(a) == a

\* return asset_info if asset_info.get("name") else None
AssetInfoResult(a) == IF HasName(a) THEN a ELSE NoneAsset

ExtractAssetInfo(row) ==
    IF row.throws
    THEN NoneAsset      \* except Exception: return None
    ELSE AssetInfoResult(
             WithAvatar(WithColumns(WithDirection(WithDescription(
                 WithName(EmptyDict, row), row), row), row), row))

\* One try block around the whole loop: a raising row ends it, and what
\* came before is kept.
RECURSIVE ExtractRowsAborting(_)
ExtractRowsAborting(rows) ==
    IF rows = <<>> \/ Head(rows).throws THEN <<>>
    ELSE LET a == AssetInfoResult(
                      WithAvatar(WithColumns(WithDirection(WithDescription(
                          WithName(EmptyDict, Head(rows)), Head(rows)), Head(rows)),
                          Head(rows)), Head(rows)))
         IN  (IF Truthy(a) THEN <<a>> ELSE <<>>) \o ExtractRowsAborting(Tail(rows))

\* The loop over portfolio_rows: append what is truthy, in order; a row that
\* raises is logged and skipped.
RECURSIVE ExtractRows(_)
ExtractRows(rows) ==
    IF rows = <<>> THEN <<>>
    ELSE LET a == ExtractAssetInfo(Head(rows))
         IN  (IF Truthy(a) THEN <<a>> ELSE <<>>) \o ExtractRows(Tail(rows))

(***************************************************************************)
(* More string operations, as the extraction code uses them.               *)
(***************************************************************************)
\* s.find(sub): the offset of the first occurrence, -1 when there is none.
Find(s, sub) ==
    IF Contains(s, sub)
    THEN CHOOSE i \in 0..(Len(s) - Len(sub)) :
            /\ SubSeq(s, i + 1, i + Len(sub)) = sub
            /\ \A j \in 0..(i - 1) : SubSeq(s, j + 1, j + Len(sub)) # sub
    ELSE -1

\* s.split(sep)[0]
SplitFirst(s, sep) == IF Contains(s, sep) THEN SubSeq(s, 1, Find(s, sep)) ELSE s

\* s.replace(old, "")
RECURSIVE RemoveAll(_, _)
RemoveAll(s, old) ==
    IF Contains(s, old)
    THEN SubSeq(s, 1, Find(s, old))
         \o RemoveAll(SubSeq(s, Find(s, old) + Len(old) + 1, Len(s)), old)
    ELSE s

S_people      == <<"/","p","e","o","p","l","e","/">>
S_last_update == <<"L","a","s","t"," ","u","p","d","a","t","e","d"," ","o","n",":">>
S_base_url    == <<"h","t","t","p","s",":","/","/","w","w","w",".","e","t","o","r","o",".","c","o","m">>
M_not_found   == <<"p","r","o","f","i","l","e"," ","n","o","t"," ","f","o","u","n","d">>
M_private     == <<"p","r","i","v","a","t","e"," ","p","r","o","f","i","l","e">>

(***************************************************************************)
(* Pages: what the browser shows.                                          *)
(***************************************************************************)
NoBalance == [label |-> FALSE, value |-> NoElem]

MkPage(banner, url, updated, rows, balance) ==
    [banner |-> banner, url |-> url, updated |-> updated, rows |-> rows,
     balance |-> balance]

\* A freshly launched browser shows an empty document.
BlankPage == MkPage(<<>>, <<"d","a","t","a",":",",">>, NoElem, <<>>, NoBalance)

RECURSIVE RowsText(_)
RowsText(rows) ==
    IF rows = <<>> THEN <<>>
    ELSE Head(rows).title.text \o Head(rows).bold.text \o Head(rows).desc.text
         \o RowsText(Tail(rows))

\* driver.page_source: the markup, of which the model keeps the text.
PageSource(p) == p.banner \o p.updated.text \o RowsText(p.rows)

U_profile == S_base_url \o S_people \o <<"b","o","b">>
U_sub     == S_base_url \o S_people \o <<"b","o","b">> \o <<"/","p","o","r","t","f","o","l","i","o">>
U_login   == S_base_url \o <<"/","l","o","g","i","n">>

B_plain     == <<"P","o","r","t","f","o","l","i","o">>
B_not_found == <<"P","R","O","F","I","L","E"," ","N","O","T"," ","F","O","U","N","D">>

E_updated == Elem(<<" ","L","a","s","t"," ","u","p","d","a","t","e","d"," ","o","n",":"," ","1","/","2"," ">>, {})

\* The parts of a page outside its rows.
PageFrames ==
    { [url |-> U_sub, updated |-> E_updated,
       balance |-> [label |-> TRUE, value |-> Elem(T_pct, {})]],
      [url |-> U_login, updated |-> NoElem, balance |-> NoBalance],
      [url |-> U_profile, updated |-> Elem(<<"U","p","d","a","t","e","d">>, {}),
       balance |-> [label |-> TRUE, value |-> NoElem]] }

\* The documents _extract_portfolio_from_page is run against on its own:
\* every frame around no row, one row and two rows, and every sequence of
\* rows in one frame.
ExtractPages ==
    { MkPage(B_plain, f.url, f.updated, rows, f.balance) :
          f \in PageFrames,
          rows \in {<<>>} \cup {<<r>> : r \in RowFixtures}
                   \cup {<<r, r>> : r \in {x \in RowFixtures : ~x.throws}} }
    \cup { MkPage(B_plain, U_sub, E_updated, rows,
                  [label |-> TRUE, value |-> Elem(T_pct, {})]) :
              rows \in SeqsUpTo(RowFixtures, MaxRows) }

R_full    == MkRow(<<Elem(T_AAPL, {}), NoElem>>,
                   [desc |-> Elem(T_Apple, {}), cells |-> SixCells,
                    avatar |-> [has |-> TRUE, src |-> T_src, has_alt |-> FALSE, alt |-> <<>>],
                    throws |-> FALSE])
R_partial == MkRow(<<NoElem, Elem(T_padded, {})>>,
                   [desc |-> NoElem, cells |-> FourCells, avatar |-> NoAvatar,
                    throws |-> FALSE])
R_private == MkRow(<<Elem(T_AAPL, {}), NoElem>>,
                   [desc |-> Elem(<<"P","r","i","v","a","t","e"," ","P","r","o","f","i","l","e"," ","I","n","c">>, {}), cells |-> NoCells,
                    avatar |-> NoAvatar, throws |-> FALSE])

\* A row with a name whose extraction raises part-way, between two good ones.
P_skip ==
    MkPage(B_plain, U_sub, E_updated,
           <<R_full,
             MkRow(<<Elem(T_AAPL, {}), NoElem>>,
                   [desc |-> Elem(T_Apple, {}), cells |-> FourCells, avatar |-> NoAvatar,
                    throws |-> TRUE]),
             R_partial>>,
           [label |-> TRUE, value |-> Elem(T_pct, {})])

\* One row for each way the profit/loss element can be marked: as positive,
\* as negative, with neither marker class, with both.
P_signs ==
    MkPage(B_plain, U_sub, E_updated,
           <<R_full, R_partial,
             MkRow(<<Elem(T_AAPL, {}), NoElem>>,
                   [desc |-> NoElem,
                    cells |-> [FourCells EXCEPT
                                 ![3] = Cell(Elem(T_neg, {"et-font-weight-normal"}), NoElem)],
                    avatar |-> NoAvatar, throws |-> FALSE]),
             MkRow(<<Elem(T_BTC, {}), NoElem>>,
                   [desc |-> NoElem,
                    cells |-> [FourCells EXCEPT
                                 ![3] = Cell(Elem(T_pct, {"et-font-weight-normal",
                                                          "et-negative", "et-positive"}),
                                             NoElem)],
                    avatar |-> NoAvatar, throws |-> FALSE])>>,
           [label |-> TRUE, value |-> Elem(T_pct, {})])

\* Rows with fewer cells than the column layout expects: three cells, the
\* first with blank text; five cells, the fifth with a rate, and an avatar
\* without src.
P_short ==
    MkPage(B_plain, U_sub, E_updated,
           <<R_full, R_partial,
             MkRow(<<Elem(T_BTC, {}), NoElem>>,
                   [desc |-> NoElem,
                    cells |-> <<Cell(Elem(T_blank, {}), NoElem), Cell(Elem(T_pct, {}), NoElem),
                                Cell(NoElem, NoElem)>>,
                    avatar |-> NoAvatar, throws |-> FALSE]),
             MkRow(<<NoElem, Elem(T_padded, {})>>,
                   [desc |-> Elem(T_Apple, {}),
                    cells |-> <<Cell(Elem(T_Long, {}), NoElem), Cell(Elem(T_pct, {}), NoElem),
                                Cell(NoElem, NoElem), Cell(Elem(T_pct, {}), NoElem),
                                Cell(NoElem, Elem(T_rate, {}))>>,
                    avatar |-> [has |-> TRUE, src |-> <<>>, has_alt |-> TRUE, alt |-> T_Apple],
                    throws |-> FALSE])>>,
           [label |-> TRUE, value |-> Elem(T_pct, {})])

\* The documents the extraction is run against on its own.
UnitPages == ExtractPages \cup {P_skip, P_signs, P_short}

\* The documents the site serves to the navigation pipeline.
PipelinePages ==
    { MkPage(<<"T","h","i","s"," ","i","s"," ","a"," ","P","r","i","v","a","t","e"," ",
               "P","r","o","f","i","l","e",".">>,
             U_profile, NoElem, <<>>, NoBalance),
      MkPage(B_not_found, U_login, NoElem, <<>>, NoBalance),
      MkPage(<<"p","r","i","v","a","t","e","-","p","r","o","f","i","l","e"," ",
               "n","o","t","-","f","o","u","n","d">>,
             U_profile, E_updated, <<R_full, R_partial>>,
             [label |-> TRUE, value |-> Elem(T_pct, {})]),
      MkPage(B_plain, U_sub, NoElem, <<>>, NoBalance),
      MkPage(B_plain, U_profile, NoElem, <<R_private>>, NoBalance) }

\* The markers looked for without lower().
NotFoundOrPrivateCaseSensitive(source) ==
    Contains(source, M_not_found) \/ Contains(source, M_private)

\* if "profile not found" in page_source.lower() or "private profile" in page_source.lower()
NotFoundOrPrivate(source) ==
    Contains(Lower(source), M_not_found) \/ Contains(Lower(source), M_private)

(***************************************************************************)
(* get_portfolio_data: the navigation pipeline.                            *)
(***************************************************************************)
NumCaptchaSelectors == 4
CaptchaPolls == 6
NumPortfolioSelectors == 7
MaxElems == 2

\* Where control goes when a scraper method ends.
AfterCall == IF mode = "scoped" THEN "with_exit" ELSE "idle"

DriverAlive == driver # 0 /\ quits[driver] = 0

\* What a WebDriver command can do.  A browser that was quit, or a driver
\* that is None, answers no command: the call raises.
Raises == {"WebDriverException", "Exception"}
CommandOutcomes == IF DriverAlive THEN {"ok"} \cup Raises ELSE Raises

\* The guard left out.
NotInitializedUnchecked == FALSE

\* if not self.driver
NotInitialized == driver = 0

\* How a step of get_portfolio_data hands control on.
Continue(next) == [pc |-> next, result |-> "pending", why |-> ""]
ReturnNone(reason) == [pc |-> "gpd_ret", result |-> "None", why |-> reason]
Raise(exc) == [pc |-> "gpd_ret", result |-> "raise_other", why |-> ""]

Transfer(t) ==
    /\ pc' = t.pc
    /\ gpd_result' = t.result
    /\ why' = t.why

\* Only the WebDriverException clause: anything else leaves the method.
CaughtWebDriverOnly(exc) ==
    IF exc = "WebDriverException" THEN ReturnNone("webdriver_error") ELSE Raise(exc)

\* The two outer except clauses (WebDriverException, Exception): both log
\* and return None.
Caught(exc) ==
    ReturnNone(IF exc = "WebDriverException" THEN "webdriver_error"
               ELSE "unexpected_error")

InitPortfolioData ==
    [user |-> NoneStr, last_updated |-> NoneStr, total_assets |-> 0,
     assets |-> <<>>, balance_percentage |-> NoneStr]

NoElement == [sel |-> 0, idx |-> 0]

GpdLocals == <<captcha_present, polls, sel_i, elements, passed_over, portfolio_element,
               clicks, still_present>>

\* if not self.driver: raise RuntimeError("WebDriver not initialized...")
GpdEntry ==
    IF NotInitialized
    THEN [pc |-> "gpd_ret", result |-> "raise_not_initialized", why |-> ""]
    ELSE Continue("gpd_navigate")

GpdCall ==
    /\ \/ /\ mode = "scoped" /\ pc = "gpd_entry"
          /\ calls' = calls
       \/ /\ mode = "direct" /\ pc = "idle" /\ calls < MaxCalls
          /\ calls' = calls + 1
    /\ steps' = {}
    /\ captcha_present' = FALSE
    /\ still_present' = FALSE
    /\ polls' = 0
    /\ sel_i' = 1
    /\ elements' = <<>>
    /\ passed_over' = ""
    /\ portfolio_element' = NoElement
    /\ clicks' = <<>>
    /\ outcome' = ""
    /\ pd' = InitPortfolioData
    /\ Transfer(GpdEntry)
    /\ UNCHANGED <<mode, PureVars, ExtractVars, driver, launched, quits, attempts, alt_i, entered, page,
                   gp_result>>

\* get_portfolio_data returns or raises: its locals are gone, its result
\* (and the record it returned, if any) stays with the caller.
GpdReturn ==
    /\ pc = "gpd_ret"
    /\ pc' = AfterCall
    /\ steps' = {}
    /\ why' = ""
    /\ captcha_present' = FALSE
    /\ still_present' = FALSE
    /\ polls' = 0
    /\ sel_i' = 1
    /\ elements' = <<>>
    /\ passed_over' = ""
    /\ portfolio_element' = NoElement
    /\ clicks' = <<>>
    /\ outcome' = ""
    /\ UNCHANGED <<mode, PureVars, ExtractVars, calls, driver, launched, quits, attempts, alt_i, entered, page,
                   pd, gpd_result, gp_result>>

\* self.driver.get(profile_url)
AfterNavigate(o) == IF o = "ok" THEN Continue("gpd_wait") ELSE Caught(o)

Navigate ==
    /\ pc = "gpd_navigate"
    /\ steps' = steps \cup {"navigate"}
    /\ \E o \in CommandOutcomes :
          /\ Transfer(AfterNavigate(o))
          /\ outcome' = o
          /\ IF o = "ok" THEN page' \in PipelinePages ELSE page' = page
    /\ UNCHANGED <<mode, PureVars, ExtractVars, calls, driver, launched, quits, attempts, alt_i, entered, pd,
                   gp_result>>
    /\ UNCHANGED GpdLocals

\* The TimeoutException clause without its "return None".
AfterWaitNoReturn(o) ==
    IF o \in {"ok", "TimeoutException"} THEN Continue("gpd_privacy")
    ELSE ReturnNone(IF o = "WebDriverException" THEN "webdriver_error"
                    ELSE "unexpected_error")

\* WebDriverWait(...).until(...); except TimeoutException: return None
AfterWait(o) ==
    IF o = "ok" THEN Continue("gpd_privacy")
    ELSE IF o = "TimeoutException" THEN ReturnNone("timeout")
    ELSE Caught(o)

AwaitReady ==
    /\ pc = "gpd_wait"
    /\ steps' = steps \cup {"wait"}
    /\ \E o \in CommandOutcomes \cup {"TimeoutException"} :
          /\ Transfer(AfterWait(o))
          /\ outcome' = o
    /\ UNCHANGED <<mode, PureVars, ExtractVars, calls, driver, launched, quits, attempts, alt_i, entered, page,
                   pd, gp_result>>
    /\ UNCHANGED GpdLocals

\* The profile-not-found / private-profile check on driver.page_source.
AfterPrivacy(o, source) ==
    IF o # "ok" THEN Caught(o)
    ELSE IF NotFoundOrPrivate(source) THEN ReturnNone("not_found_or_private")
    ELSE Continue("gpd_captcha")

PrivacyCheck ==
    /\ pc = "gpd_privacy"
    /\ steps' = steps \cup {"privacy"}
    /\ \E o \in CommandOutcomes :
          /\ Transfer(AfterPrivacy(o, PageSource(page)))
          /\ outcome' = o
    /\ UNCHANGED <<mode, PureVars, ExtractVars, calls, driver, launched, quits, attempts, alt_i, entered, page,
                   pd, gp_result>>
    /\ UNCHANGED GpdLocals

\* One probe of one captcha selector: find_element raised, or the element it
\* found is or is not displayed.
Probes ==
    [1..NumCaptchaSelectors ->
        IF DriverAlive THEN {"error", "hidden", "visible"} ELSE {"error"}]

\* The loop over captcha_selectors: a raising probe is skipped, the first
\* displayed element ends the loop.
CaptchaVisible(probes) == \E i \in 1..NumCaptchaSelectors : probes[i] = "visible"

CaptchaDetect ==
    /\ pc = "gpd_captcha"
    /\ steps' = steps \cup {"captcha"}
    /\ \E probes \in Probes :
          /\ captcha_present' = CaptchaVisible(probes)
          /\ pc' = IF CaptchaVisible(probes) THEN "gpd_poll" ELSE "gpd_locate"
    /\ UNCHANGED <<mode, PureVars, ExtractVars, calls, driver, launched, quits, attempts, alt_i, entered, page,
                   pd, gp_result, gpd_result, why, outcome>>
    /\ UNCHANGED <<polls, sel_i, elements, passed_over, portfolio_element, clicks,
                   still_present>>

\* A loop with no bound.
PollAgainUnbounded(still, n) == still

\* for i in range(6): ... if not still_present: break
PollAgain(still, n) == still /\ n < CaptchaPolls

\* One iteration of the polling loop.
Poll ==
    /\ pc = "gpd_poll"
    /\ steps' = steps \cup {"poll"}
    /\ polls' = polls + 1
    /\ \E probes \in Probes :
          /\ still_present' = CaptchaVisible(probes)
          /\ pc' = IF PollAgain(CaptchaVisible(probes), polls + 1)
                   THEN "gpd_poll" ELSE "gpd_locate"
    /\ UNCHANGED <<mode, PureVars, ExtractVars, calls, driver, launched, quits, attempts, alt_i, entered, page,
                   pd, gp_result, gpd_result, why, outcome>>
    /\ UNCHANGED <<captcha_present, sel_i, elements, passed_over, portfolio_element,
                   clicks>>

\* What element.is_displayed() and element.is_enabled() answers for one
\* element: is_enabled is only asked of a displayed element, and either
\* question can raise (a stale element).
ElementFlags ==
    {[displayed |-> TRUE, enabled |-> TRUE, raises |-> FALSE],
     [displayed |-> TRUE, enabled |-> FALSE, raises |-> FALSE],
     [displayed |-> FALSE, enabled |-> FALSE, raises |-> FALSE],
     [displayed |-> FALSE, enabled |-> FALSE, raises |-> TRUE]}

\* What find_elements of one portfolio selector can yield: an exception, or a
\* list of elements.
SelectorOutcomes ==
    IF DriverAlive
    THEN {[error |-> TRUE, elements |-> <<>>]}
         \cup { [error |-> FALSE, elements |-> es] : es \in SeqsUpTo(ElementFlags, MaxElems) }
    ELSE {[error |-> TRUE, elements |-> <<>>]}

Usable(e) == ~e.raises /\ e.displayed /\ e.enabled

\* No check of the first n elements raises.
NoneRaises(es, n) == \A j \in 1..n : ~es[j].raises

\* The first displayed element, enabled or not.
FirstDisplayed(es) ==
    IF \E i \in 1..Len(es) : es[i].displayed /\ NoneRaises(es, i)
    THEN CHOOSE i \in 1..Len(es) :
             es[i].displayed /\ NoneRaises(es, i) /\ \A j \in 1..(i - 1) : ~es[j].displayed
    ELSE 0

\* for element in elements: if element.is_displayed() and element.is_enabled():
\* the index of the element the loop breaks at, 0 when it ends without one or
\* a check raises first.
FirstUsable(es) ==
    IF \E i \in 1..Len(es) : Usable(es[i]) /\ NoneRaises(es, i)
    THEN CHOOSE i \in 1..Len(es) :
             Usable(es[i]) /\ NoneRaises(es, i) /\ \A j \in 1..(i - 1) : ~Usable(es[j])
    ELSE 0

\* What a pass that goes on to the next selector leaves behind it: "missed"
\* when its list held a displayed and enabled element and no check before
\* that element raised, "raised" when it held one behind a raising check.
PassedOver(before, o, hit) ==
    IF \/ hit > 0 \/ o.error \/ before = "missed"
       \/ ~\E i \in 1..Len(o.elements) : o.elements[i].displayed /\ o.elements[i].enabled
    THEN before
    ELSE IF \E i \in 1..Len(o.elements) : Usable(o.elements[i]) /\ NoneRaises(o.elements, i)
         THEN "missed" ELSE "raised"

\* One iteration of the loop over portfolio_selectors.
Locate ==
    /\ pc = "gpd_locate"
    /\ steps' = steps \cup {"locate"}
    /\ \E o \in SelectorOutcomes :
          LET hit == IF o.error THEN 0 ELSE FirstUsable(o.elements) IN
          /\ elements' = IF hit > 0 THEN SubSeq(o.elements, 1, hit) ELSE elements
          /\ passed_over' = PassedOver(passed_over, o, hit)
          /\ portfolio_element' = IF hit > 0 THEN [sel |-> sel_i, idx |-> hit]
                                  ELSE portfolio_element
          /\ sel_i' = IF hit > 0 THEN sel_i ELSE sel_i + 1
          /\ pc' = IF hit > 0 \/ sel_i = NumPortfolioSelectors
                   THEN "gpd_click" ELSE "gpd_locate"
          /\ polls' = IF hit > 0 \/ sel_i = NumPortfolioSelectors THEN 0 ELSE polls
    /\ UNCHANGED <<mode, PureVars, ExtractVars, calls, driver, launched, quits, attempts, alt_i, entered, page,
                   pd, gp_result, gpd_result, why, outcome>>
    /\ UNCHANGED <<captcha_present, clicks, still_present>>

\* The try block that scrolls to the element and clicks it.
DirectOutcomes == IF DriverAlive THEN {"ok", "scroll_fail", "click_fail"}
                  ELSE {"scroll_fail"}
ScriptOutcomes == IF DriverAlive THEN {"ok", "fail"} ELSE {"fail"}

\* The click attempts made: the direct click, unless scrolling already
\* failed, and the script click after any failure.
ClickLog(d, s) ==
    (IF d = "scroll_fail" THEN <<>> ELSE <<[kind |-> "direct", ok |-> d = "ok"]>>)
    \o (IF d = "ok" THEN <<>> ELSE <<[kind |-> "script", ok |-> s = "ok"]>>)

\* if portfolio_element: click it ... ; then on to the extraction.
Activate ==
    /\ pc = "gpd_click"
    /\ pc' = "ex_begin"
    /\ IF portfolio_element = NoElement
       THEN UNCHANGED <<clicks, page, steps>>
       ELSE /\ steps' = steps \cup {"activate"}
            /\ \E d \in DirectOutcomes, s \in ScriptOutcomes :
                  /\ clicks' = ClickLog(d, s)
                  /\ IF d = "ok" \/ s = "ok"
                     THEN page' \in PipelinePages
                     ELSE page' = page
    /\ sel_i' = 1
    /\ elements' = <<>>
    /\ passed_over' = ""
    /\ UNCHANGED <<mode, PureVars, ExtractVars, calls, driver, launched, quits, attempts, alt_i, entered,
                   pd, gp_result, gpd_result, why, outcome>>
    /\ UNCHANGED <<captcha_present, polls, portfolio_element, still_present>>

(***************************************************************************)
(* _extract_portfolio_from_page and _extract_available_data.               *)
(***************************************************************************)
\* current_url.split('/people/')[1].split('/')[0]
UserOf(url) ==
    LET after  == SubSeq(url, Find(url, S_people) + Len(S_people) + 1, Len(url))
        second == SplitFirst(after, S_people)
    IN  SplitFirst(second, <<"/">>)

WithUser(d, url) ==
    IF Contains(url, S_people) THEN [d EXCEPT !.user = Some(UserOf(url))] ELSE d

WithUpdated(d, e) ==
    IF e.has /\ Contains(GetText(e), S_last_update)
    THEN [d EXCEPT !.last_updated = Some(Strip(RemoveAll(GetText(e), S_last_update)))]
    ELSE d

\* The list stored, the count not recomputed.
StoreAssetsOnly(d, assets) == [d EXCEPT !.assets = assets]

\* portfolio_data["assets"] = assets; portfolio_data["total_assets"] = len(assets)
StoreAssets(d, assets) == [d EXCEPT !.assets = assets, !.total_assets = Len(assets)]

WithBalance(d, b) ==
    IF b.label /\ b.value.has
    THEN [d EXCEPT !.balance_percentage = Some(GetText(b.value))]
    ELSE d

OtherVars == <<mode, PureVars, driver, launched, quits, attempts, alt_i, entered, gp_result>>

\* The dict of the call before taken up again.
NewPortfolioDataReused(old) == old

\* portfolio_data = {"user": None, ...}: a new dict for every call
NewPortfolioData(old) == InitPortfolioData

\* portfolio_data = {...}; page_source = self.driver.page_source; soup = ...
ExtractBegin ==
    /\ \/ /\ pc = "ex_begin"
          /\ calls' = calls
       \/ /\ mode = "unit" /\ pc = "idle"
          /\ calls' = calls
    /\ steps' = steps \cup {"extract"}
    /\ pd' = NewPortfolioData(pd)
    /\ \E o \in CommandOutcomes :
          /\ pc' = IF o = "ok" THEN "ex_header" ELSE "ex_ret"
          /\ ex_end' = IF o = "ok" THEN "" ELSE "page_source"
    /\ UNCHANGED first_run
    /\ portfolio_element' = NoElement
    /\ clicks' = <<>>
    /\ UNCHANGED <<page, gpd_result, why, outcome>>
    /\ UNCHANGED <<captcha_present, polls, sel_i, elements, passed_over, still_present>>
    /\ UNCHANGED OtherVars

\* current_url, the user and the last-updated label.
ExtractHeader ==
    /\ pc = "ex_header"
    /\ \E o \in CommandOutcomes :
          IF o = "ok"
          THEN /\ pd' = WithUpdated(WithUser(pd, page.url), page.updated)
               /\ pc' = "ex_rows"
               /\ ex_end' = ""
          ELSE /\ pd' = pd
               /\ pc' = "ex_ret"
               /\ ex_end' = "current_url"
    /\ UNCHANGED <<calls, steps, page, gpd_result, why, outcome, first_run>>
    /\ UNCHANGED GpdLocals
    /\ UNCHANGED OtherVars

\* The rows: select them, extract each, store the list and its length.  An
\* exception raised before the list is stored leaves the dict as it was.
ExtractAssets ==
    /\ pc = "ex_rows"
    /\ \E fault \in BOOLEAN :
          IF fault
          THEN /\ pd' = pd
               /\ pc' = "ex_ret"
               /\ ex_end' = "rows"
          ELSE /\ pd' = StoreAssets(pd, ExtractRows(page.rows))
               /\ pc' = "ex_balance"
               /\ ex_end' = ""
    /\ UNCHANGED <<calls, steps, page, gpd_result, why, outcome, first_run>>
    /\ UNCHANGED GpdLocals
    /\ UNCHANGED OtherVars

\* The balance label; an exception here reaches the except clause, which
\* returns the dict as it is.
ExtractBalance ==
    /\ pc = "ex_balance"
    /\ \E fault \in BOOLEAN :
          /\ pd' = IF fault THEN pd ELSE WithBalance(pd, page.balance)
          /\ ex_end' = IF fault THEN "balance" ELSE "return"
    /\ pc' = "ex_ret"
    /\ UNCHANGED <<calls, steps, page, gpd_result, why, outcome, first_run>>
    /\ UNCHANGED GpdLocals
    /\ UNCHANGED OtherVars

\* return portfolio_data: to get_portfolio_data, which returns it, or to the
\* caller that ran the extraction on its own.
ExtractReturn ==
    /\ pc = "ex_ret"
    /\ IF mode = "unit"
       THEN /\ pc' = "idle"
            /\ gpd_result' = gpd_result
       ELSE /\ pc' = "gpd_ret"
            /\ gpd_result' = "record"
    /\ ex_end' = ""
    /\ first_run' = IF mode = "unit" /\ ~first_run.has
                    THEN [has |-> TRUE, ended |-> ex_end, pd |-> pd]
                    ELSE first_run
    /\ UNCHANGED <<calls, steps, page, pd, why, outcome>>
    /\ UNCHANGED GpdLocals
    /\ UNCHANGED OtherVars

InitBasicData ==
    [user |-> NoneStr, last_updated |-> NoneStr, total_assets |-> 0,
     assets |-> <<>>, access_restricted |-> TRUE,
     message |-> "Access may be restricted by CAPTCHA or anti-bot measures"]

WithMessage(d, text) ==
    IF Contains(Lower(text), <<"p","o","r","t","f","o","l","i","o">>)
    THEN [d EXCEPT !.message = "Portfolio page detected but content extraction was limited"]
    ELSE d

\* _extract_available_data, which nothing in the package calls.
ExtractAvailableData ==
    /\ mode = "unit" /\ pc = "idle"
    /\ calls' = calls
    /\ pc' = "avail_ret"
    /\ \E url \in CommandOutcomes, src \in CommandOutcomes :
          pd' = IF url # "ok" THEN InitBasicData
                ELSE IF src # "ok" THEN WithUser(InitBasicData, page.url)
                ELSE WithMessage(WithUser(InitBasicData, page.url), PageSource(page))
    /\ UNCHANGED <<steps, page, gpd_result, why, outcome, ExtractVars>>
    /\ UNCHANGED GpdLocals
    /\ UNCHANGED OtherVars

AvailableReturn ==
    /\ pc = "avail_ret"
    /\ pc' = "idle"
    /\ UNCHANGED <<calls, steps, page, pd, gpd_result, why, outcome, ExtractVars>>
    /\ UNCHANGED GpdLocals
    /\ UNCHANGED OtherVars

(***************************************************************************)
(* Config.get_profile_url.                                                 *)
(***************************************************************************)
S_field == <<"u","s","e","r","n","a","m","e">>

\* etoro_public_profile_url: the f-string f"{self.etoro_base_url}/people/{{username}}",
\* in which the doubled braces stand for single ones.
EtoroPublicProfileUrl == S_base_url \o S_people \o <<"{">> \o S_field \o <<"}">>

\* template.format(field=value): "{{" and "}}" give one brace, "{field}" is
\* replaced by the value as it is, everything else is copied.
RECURSIVE Format(_, _, _)
Format(template, field, value) ==
    IF template = <<>> THEN <<>>
    ELSE IF Len(template) >= 2 /\ template[1] = template[2] /\ template[1] \in {"{", "}"}
    THEN <<template[1]>> \o Format(SubSeq(template, 3, Len(template)), field, value)
    ELSE IF template[1] = "{" /\ SplitFirst(Tail(template), <<"}">>) = field
    THEN value \o Format(SubSeq(template, Len(field) + 3, Len(template)), field, value)
    ELSE <<template[1]>> \o Format(Tail(template), field, value)

\* The username trimmed before it is put in.
GetProfileUrlStripped(name) == Format(EtoroPublicProfileUrl, S_field, Strip(name))

\* return self.etoro_public_profile_url.format(username=username)
GetProfileUrl(name) == Format(EtoroPublicProfileUrl, S_field, name)

MaxUserLen == 2

\* Usernames: letters of both cases, and characters that mean something
\* to a URL, to str.format or to str.strip.
Usernames == SeqsUpTo({"a", "B", "/", "{", "}", " "}, MaxUserLen) \cup {<<"b","o","b">>}

GetProfileUrlCall ==
    /\ mode = "config" /\ pc = "idle" /\ calls < MaxCalls
    /\ calls' = calls + 1
    /\ profile_url' = GetProfileUrl(username)
    /\ UNCHANGED <<mode, pc, username, portfolio_data, output, driver, launched, quits,
                   attempts, alt_i, entered, gp_result>>
    /\ UNCHANGED PipelineVars

(***************************************************************************)
(* format_portfolio_table (formatters.py).  A value of the record is       *)
(* missing (the key is not there), None, or a string.                      *)
(***************************************************************************)
Missing == [kind |-> "missing", text |-> <<>>]
NoneValue == [kind |-> "none", text |-> <<>>]
StrValue(t) == [kind |-> "str", text |-> t]

\* str(d.get(key, default)) for a value that is a string or None
GetStr(v, default) ==
    IF v.kind = "missing" THEN default
    ELSE IF v.kind = "none" THEN <<"N","o","n","e">>
    ELSE v.text

\* str(n) for n >= 0
RECURSIVE IntToStr(_)
IntToStr(n) ==
    LET digits == <<"0","1","2","3","4","5","6","7","8","9">>
    IN  IF n < 10 THEN <<digits[n + 1]>>
        ELSE IntToStr(n \div 10) \o <<digits[(n % 10) + 1]>>

\* c * n
Repeat(c, n) == [i \in 1..n |-> c]

\* s.ljust(w)
Ljust(s, w) == IF Len(s) < w THEN s \o Repeat(" ", w - Len(s)) ELSE s

\* sep.join(parts)
RECURSIVE Join(_, _)
Join(parts, sep) ==
    IF parts = <<>> THEN <<>>
    ELSE IF Len(parts) = 1 THEN parts[1]
    ELSE parts[1] \o sep \o Join(Tail(parts), sep)

RuleWidth == 80
MaxColWidth == 30

\* column_mapping, in its order
ColumnMapping ==
    << [key |-> "name",           header |-> <<"A","s","s","e","t"," ","N","a","m","e">>],
       [key |-> "percentage",     header |-> <<"A","l","l","o","c","a","t","i","o","n"," ","%">>],
       [key |-> "value",          header |-> <<"V","a","l","u","e">>],
       [key |-> "profit_loss",    header |-> <<"P","&","L">>],
       [key |-> "extracted_from", header |-> <<"S","o","u","r","c","e">>] >>

\* The columns some asset has a value for.
Columns(assets) ==
    LET all_keys == UNION {DOMAIN assets[i] : i \in 1..Len(assets)}
    IN  SelectSeq(ColumnMapping, LAMBDA c : c.key \in all_keys)

\* str(asset.get(col, ''))
GetCol(asset, key) == IF key \in DOMAIN asset THEN asset[key] ELSE <<>>

MinOf2(a, b) == IF a <= b THEN a ELSE b

\* The width taken from the header alone.
ColWidthFromHeader(col, assets) == MinOf2(Len(col.header) + 2, MaxColWidth)

\* min(max_width + 2, 30)
ColWidth(col, assets) ==
    LET lens == {Len(col.header)}
                \cup {Len(GetCol(assets[i], col.key)) : i \in 1..Len(assets)}
        max_width == CHOOSE x \in lens : \A y \in lens : y <= x
    IN  MinOf2(max_width + 2, MaxColWidth)

S_bar == <<" ","|"," ">>

HeaderRow(assets) ==
    LET cols == Columns(assets)
    IN  Join([i \in 1..Len(cols) |-> Ljust(cols[i].header, ColWidth(cols[i], assets))],
             S_bar)

\* One row: value[:width - 3] + "..." for a value longer than the column.
AssetRow(asset, assets) ==
    LET cols == Columns(assets)
        Field(i) ==
            LET value == GetCol(asset, cols[i].key)
                w     == ColWidth(cols[i], assets)
            IN  Ljust(IF Len(value) > w THEN SubSeq(value, 1, w - 3) \o <<".",".",".">>
                      ELSE value,
                      w)
    IN  Join([i \in 1..Len(cols) |-> Field(i)], S_bar)

S_portfolio_for == <<"P","o","r","t","f","o","l","i","o"," ","f","o","r",":"," ">>
S_unknown      == <<"U","n","k","n","o","w","n">>
S_newline      == <<"\n">>

\* The lines up to the rule.
HeaderLines(d) ==
    << S_portfolio_for \o GetStr(d.user, S_unknown),
       <<"T","o","t","a","l"," ","A","s","s","e","t","s",":"," ">> \o IntToStr(d.total_assets) >>
    \o (IF GetStr(d.last_updated, S_unknown) # S_unknown
        THEN << <<"L","a","s","t"," ","U","p","d","a","t","e","d",":"," ">>
                \o GetStr(d.last_updated, S_unknown) >>
        ELSE <<>>)
    \o << Repeat("-", RuleWidth) >>

FormatPortfolioTable(d) ==
    IF d.empty
    THEN <<"N","o"," ","p","o","r","t","f","o","l","i","o"," ","d","a","t","a"," ",
           "a","v","a","i","l","a","b","l","e",".">>
    ELSE IF d.assets = <<>>
    THEN Join(HeaderLines(d)
              \o << <<"N","o"," ","a","s","s","e","t","s"," ","f","o","u","n","d"," ",
                     "i","n"," ","p","o","r","t","f","o","l","i","o",".">> >>,
              S_newline)
    ELSE Join(HeaderLines(d)
              \o << HeaderRow(d.assets), Repeat("-", Len(HeaderRow(d.assets))) >>
              \o [i \in 1..Len(d.assets) |-> AssetRow(d.assets[i], d.assets)],
              S_newline)

T_testuser == <<"t","e","s","t","u","s","e","r">>
T_name30   == <<"A","B","C","D","E","F","G","H","I","J","K","L","M","N","O","P","Q","R","S","T","U","V","W","X","Y","Z","0","1","2","3">>
T_name31   == <<"A","B","C","D","E","F","G","H","I","J","K","L","M","N","O","P","Q","R","S","T","U","V","W","X","Y","Z","0","1","2","3","4">>

MaxAssets == 2

\* Records with entries as the tests build them and as the scraper builds
\* them, and the empty dict.
FormatRecords ==
    { [empty |-> FALSE, user |-> u, total_assets |-> Len(a), last_updated |-> l, assets |-> a] :
          u \in {StrValue(T_testuser), NoneValue, Missing},
          l \in {Missing, NoneValue, StrValue(<<"1","/","2">>)},
          a \in SeqsUpTo({ ("name" :> T_AAPL) @@ ("percentage" :> <<"5","0","%">>)
                               @@ ("value" :> <<"$","1","0","0","0">>),
                           ("name" :> T_BTC) @@ ("extracted_from" :> <<"t","e","x","t","_","f","a","l","l","b","a","c","k">>),
                           ("name" :> T_name30),
                           ("name" :> T_name31),
                           ("name" :> <<"G","O","O","G","L">>) @@ ("description" :> T_Apple)
                               @@ ("invested_percentage" :> T_pct) },
                         MaxAssets) }
    \cup { [empty |-> TRUE, user |-> Missing, total_assets |-> 0, last_updated |-> Missing,
            assets |-> <<>>] }

FormatTableCall ==
    /\ mode = "format" /\ pc = "idle" /\ calls < MaxCalls
    /\ calls' = calls + 1
    /\ output' = FormatPortfolioTable(portfolio_data)
    /\ UNCHANGED <<mode, pc, username, profile_url, portfolio_data, driver, launched, quits,
                   attempts, alt_i, entered, gp_result>>
    /\ UNCHANGED PipelineVars

(***************************************************************************)
(* _extract_assets_from_text: the fallback over the text of the page.      *)
(***************************************************************************)
\* text.split('\n')
RECURSIVE SplitLines(_)
SplitLines(s) ==
    IF ~Contains(s, S_newline) THEN <<s>>
    ELSE <<SplitFirst(s, S_newline)>> \o SplitLines(SubSeq(s, Find(s, S_newline) + 2, Len(s)))

FallbackCap == 10
MaxLineLen == 50
S_text_fallback == <<"t","e","x","t","_","f","a","l","l","b","a","c","k">>
K_extracted_from == "extracted_from"

AssetsFromText(text_content) ==
    LET lines    == SplitLines(text_content)
        stripped == [i \in 1..Len(lines) |-> Strip(lines[i])]
        matching == SelectSeq(stripped,
                              LAMBDA line :
                                  /\ line # <<>>
                                  /\ Len(line) < MaxLineLen
                                  /\ \/ Contains(line, <<"%">>)
                                     \/ Contains(Lower(line),
                                                 <<"i","n","v","e","s","t","e","d">>))
        assets   == [i \in 1..Len(matching) |->
                        Put(Put(EmptyDict, K_name, matching[i]),
                            K_extracted_from, S_text_fallback)]
    IN  SubSeq(assets, 1, MinOf2(Len(assets), FallbackCap))

\* The text nodes of the rows, one to a line.
RECURSIVE RowsLines(_)
RowsLines(rows) ==
    IF rows = <<>> THEN <<>>
    ELSE SelectSeq(<<Head(rows).title.text, Head(rows).bold.text, Head(rows).desc.text>>,
                   LAMBDA t : t # <<>>)
         \o RowsLines(Tail(rows))

\* The full text content of the page.
PageText(p) ==
    Join(<<p.banner>> \o (IF p.updated.has THEN <<p.updated.text>> ELSE <<>>)
         \o RowsLines(p.rows)
         \o (IF p.balance.value.has THEN <<p.balance.value.text>> ELSE <<>>),
         S_newline)

(***************************************************************************)
(* get_portfolio: the end of the with statement.                           *)
(***************************************************************************)
\* if portfolio_data: return portfolio_data / else: return None; an
\* exception of the with body passes through "except Exception: raise".
GpOutcome(r) == r

GpFinish ==
    /\ mode = "scoped" /\ pc = "gp_after_with"
    /\ pc' = "done"
    /\ gp_result' = GpOutcome(gpd_result)
    /\ UNCHANGED <<mode, PureVars, calls, driver, launched, quits, attempts, alt_i, entered>>
    /\ UNCHANGED PipelineVars

(***************************************************************************)
(* The specification.                                                      *)
(***************************************************************************)

Init ==
    /\ mode \in {"scoped", "direct", "unit", "config", "format"}
    /\ pc = IF mode = "scoped" THEN "gp_with" ELSE "idle"
    /\ calls = 0
    \* the extraction run on its own needs a session showing a document
    /\ driver = IF mode = "unit" THEN 1 ELSE 0
    /\ launched = IF mode = "unit" THEN 1 ELSE 0
    /\ quits = IF mode = "unit" THEN <<0>> ELSE <<>>
    /\ page \in IF mode = "unit" THEN UnitPages ELSE {BlankPage}
    /\ attempts = <<>>
    /\ alt_i = 0
    /\ entered = FALSE
    /\ steps = {}
    /\ captcha_present = FALSE
    /\ still_present = FALSE
    /\ polls = 0
    /\ sel_i = 1
    /\ elements = <<>>
    /\ passed_over = ""
    /\ portfolio_element = NoElement
    /\ clicks = <<>>
    /\ outcome = ""
    /\ why = ""
    /\ pd = InitPortfolioData
    /\ gpd_result = "none"
    /\ gp_result = "none"
    /\ ex_end = ""
    /\ first_run = [has |-> FALSE, ended |-> "", pd |-> InitPortfolioData]
    /\ username \in IF mode = "config" THEN Usernames ELSE {<<>>}
    /\ profile_url = <<>>
    /\ portfolio_data \in IF mode = "format" THEN FormatRecords
                         ELSE {[empty |-> TRUE, user |-> Missing, total_assets |-> 0,
                                last_updated |-> Missing, assets |-> <<>>]}
    /\ output = <<>>

Next ==
    \/ EnterCall
    \/ SetupPrimary
    \/ SetupAlternate
    \/ SetupMinimal
    \/ EnterReturn
    \/ EnterRaise
    \/ ExitCall
    \/ GpFinish
    \/ GpdCall
    \/ GpdReturn
    \/ Navigate
    \/ AwaitReady
    \/ PrivacyCheck
    \/ CaptchaDetect
    \/ Poll
    \/ Locate
    \/ Activate
    \/ ExtractBegin
    \/ ExtractHeader
    \/ ExtractAssets
    \/ ExtractBalance
    \/ ExtractReturn
    \/ ExtractAvailableData
    \/ AvailableReturn
    \/ GetProfileUrlCall
    \/ FormatTableCall

Spec == Init /\ [][Next]_vars

(***************************************************************************)
(* Properties.                                                             *)
(***************************************************************************)
PipelinePcs == {"gpd_navigate", "gpd_wait", "gpd_privacy", "gpd_captcha", "gpd_poll",
                "gpd_locate", "gpd_click", "ex_begin", "ex_header", "ex_rows",
                "ex_balance", "ex_ret"}

\* C1: in get_portfolio, once __enter__ has returned, the session's browser
\* has received quit() by the time the with statement is left and
\* get_portfolio returns or raises, whatever get_portfolio_data produced.
C1_QuitOnEveryExit ==
    (mode = "scoped" /\ entered /\ pc \in {"gp_after_with", "done"})
        => (driver # 0 /\ quits[driver] >= 1)

\* get_portfolio has returned None after a session was acquired and released.
C1_Witness ==
    /\ mode = "scoped" /\ pc = "done" /\ entered
    /\ gp_result = "None" /\ quits[driver] = 1

AllFailed(log) == \A i \in 1..Len(log) : ~log[i].ok

\* C2: the attempts of _setup_driver are made in the order primary,
\* alternates in list order, minimal: the first attempt is the primary one,
\* ranks strictly increase, every attempt but the last one failed, and once
\* an attempt has succeeded the function is at its return.
C2_AttemptOrder ==
    /\ Len(attempts) > 0 => attempts[1].rank = PrimaryRank
    /\ \A i \in 1..(Len(attempts) - 1) :
          /\ attempts[i].rank < attempts[i + 1].rank
          /\ ~attempts[i].ok
    /\ \A i \in 1..Len(attempts) : attempts[i].rank \in PrimaryRank..MinimalRank
    /\ (Len(attempts) > 0 /\ attempts[Len(attempts)].ok) => pc = "setup_ret"
    /\ pc = "setup_minimal" =>
          (AllFailed(attempts) /\ attempts[Len(attempts)].rank < MinimalRank)
    /\ pc = "setup_raise" => attempts[Len(attempts)].rank = MinimalRank

\* The primary attempt and an alternate failed, a later alternate succeeded.
C2_Witness ==
    /\ pc = "setup_ret" /\ Len(attempts) = 3
    /\ attempts[2].rank = 2 /\ attempts[3].rank = 4
    /\ attempts[3].ok

\* C3: when every attempt of _setup_driver has failed the function raises;
\* get_portfolio then ends by raising that error, without __enter__ having
\* returned and without get_portfolio_data ever having been called.
C3_StartupFailureIsFatal ==
    /\ (pc \in {"setup_ret", "setup_raise"} /\ AllFailed(attempts)) => pc = "setup_raise"
    /\ pc = "setup_raise" => AllFailed(attempts)
    /\ (mode = "scoped" /\ pc = "done" /\ ~entered) =>
          (gp_result = "raise_browser_unavailable" /\ gpd_result = "none" /\ steps = {})
    /\ (mode = "scoped" /\ gp_result = "raise_browser_unavailable") =>
          (pc = "done" /\ ~entered)
    /\ (mode = "scoped" /\ pc \notin {"gp_with", "setup_primary", "setup_alt",
                                     "setup_minimal", "setup_ret", "setup_raise", "done"})
          => entered

C3_Witness ==
    mode = "scoped" /\ pc = "done" /\ gp_result = "raise_browser_unavailable"

\* C4: get_portfolio_data called while driver is None ends with the
\* not-initialized RuntimeError and performs no pipeline step.
C4_NotInitializedRaises ==
    driver = 0 =>
        /\ pc \notin PipelinePcs
        /\ pc = "gpd_ret" => (gpd_result = "raise_not_initialized" /\ steps = {})
        /\ gpd_result \in {"none", "raise_not_initialized"}

C4_Witness ==
    pc = "gpd_ret" /\ driver = 0 /\ gpd_result = "raise_not_initialized"

\* C5: with a driver set, get_portfolio_data ends by returning None or a
\* record, whatever failed on the way; the only errors that leave the
\* scraper are the not-initialized error (only without a driver) and the
\* browser-startup error.
C5_NeverRaisesWithSession ==
    /\ (pc = "gpd_ret" /\ driver # 0) => gpd_result \in {"None", "record"}
    /\ gpd_result \in {"none", "pending", "None", "record", "raise_not_initialized"}
    /\ gp_result \in {"none", "None", "record", "raise_browser_unavailable"}

\* An exception that is no WebDriverException was absorbed.
C5_Witness ==
    /\ pc = "gpd_ret" /\ driver # 0 /\ quits[driver] = 0
    /\ gpd_result = "None" /\ outcome = "Exception" /\ "privacy" \in steps

\* C6: when the readiness wait times out, get_portfolio_data returns None
\* at once: no later step is performed.
C6_TimeoutIsNoData ==
    (outcome = "TimeoutException") =>
        /\ pc = "gpd_ret"
        /\ gpd_result = "None"
        /\ steps = {"navigate", "wait"}

C6_Witness ==
    pc = "gpd_ret" /\ outcome = "TimeoutException" /\ gpd_result = "None"

\* The page carries one of the two markers, compared case-insensitively.
Marked(p) ==
    \/ Contains(Lower(PageSource(p)), M_not_found)
    \/ Contains(Lower(PageSource(p)), M_private)

\* C7: a page carrying the "profile not found" or "private profile" marker
\* in any letter case makes get_portfolio_data return None at the privacy
\* check, before challenge detection; a page without a marker, once its
\* source was read, goes on to challenge detection.
C7_MarkerIsNoData ==
    /\ pc \in {"gpd_captcha", "gpd_poll", "gpd_locate", "gpd_click"} => ~Marked(page)
    /\ why = "not_found_or_private" =>
          /\ Marked(page)
          /\ pc = "gpd_ret" /\ gpd_result = "None"
          /\ steps = {"navigate", "wait", "privacy"}
    /\ (pc = "gpd_ret" /\ steps = {"navigate", "wait", "privacy"} /\ outcome = "ok") =>
          (Marked(page) /\ why = "not_found_or_private")

\* The marker was found in capitals.
C7_Witness ==
    /\ pc = "gpd_ret" /\ why = "not_found_or_private"
    /\ page.banner = B_not_found /\ gpd_result = "None"

\* C8: after a visible challenge was detected the polling loop runs at most
\* 6 times, goes on only while the last poll still saw the challenge, and
\* get_portfolio_data then locates the portfolio view, extracts, and
\* returns a record.
C8_BoundedPollingThenExtract ==
    /\ polls <= 6
    /\ (pc = "gpd_poll" /\ polls > 0) => still_present
    /\ pc = "gpd_poll" => (captcha_present /\ polls < 6)
    /\ (pc = "gpd_locate" /\ captcha_present) =>
          (polls >= 1 /\ (still_present => polls = 6))
    /\ (captcha_present /\ pc \notin {"gpd_poll", "gpd_locate"}) =>
          /\ pc \in {"gpd_click", "ex_begin", "ex_header", "ex_rows", "ex_balance",
                     "ex_ret", "gpd_ret"}
          /\ {"poll", "locate"} \subseteq steps
          /\ gpd_result \in {"pending", "record"}
    /\ (captcha_present /\ pc = "gpd_ret") =>
          (gpd_result = "record" /\ {"poll", "locate", "extract"} \subseteq steps)

\* The challenge never cleared and a record was returned all the same.
C8_Witness ==
    /\ pc = "gpd_ret" /\ captcha_present /\ still_present
    /\ gpd_result = "record"

\* C9: total_assets equals the length of assets in the dict of
\* _extract_portfolio_from_page and of _extract_available_data, at every
\* point and so in whatever they return, whichever step was interrupted.
C9_TotalMatchesAssets == pd.total_assets = Len(pd.assets)

\* Assets were stored and the balance step was then interrupted.
C9_Witness ==
    /\ pc = "ex_ret" /\ Len(pd.assets) = 2
    /\ page.balance.label /\ page.balance.value.has
    /\ ~pd.balance_percentage.has

Blank(t) == \A i \in 1..Len(t) : IsSpace(t[i])

\* A name lookup of the row yields non-empty text.
Nameable(row) ==
    \/ row.title.has /\ ~Blank(row.title.text)
    \/ row.bold.has /\ ~Blank(row.bold.text)

\* C10: every entry of assets has a non-empty name, and there are no more
\* entries than rows of which a name lookup yields non-empty text: a row
\* without one is left out, whatever other fields it has.
C10_EntriesHaveNames ==
    /\ \A i \in 1..Len(pd.assets) :
          /\ K_name \in DOMAIN pd.assets[i]
          /\ pd.assets[i][K_name] # <<>>
    /\ Len(pd.assets) <= Cardinality({i \in 1..Len(page.rows) : Nameable(page.rows[i])})

\* A row with cells, prices and an avatar but no name was left out.
C10_Witness ==
    /\ pc = "ex_ret" /\ Len(page.rows) = 2 /\ Len(pd.assets) = 1
    /\ \E i \in 1..2 :
          /\ ~page.rows[i].title.has /\ ~page.rows[i].bold.has
          /\ Len(page.rows[i].cells) = 6 /\ page.rows[i].avatar.has

\* The row's name lookup yields text that is not blank: the primary lookup
\* when it matches, else the fallback.
Named(row) ==
    IF row.title.has THEN ~Blank(row.title.text)
    ELSE row.bold.has /\ ~Blank(row.bold.text)

\* The rows, by position, whose extraction did not raise and gave a name.
Extracted(rows) == {i \in 1..Len(rows) : ~rows[i].throws /\ Named(rows[i])}

\* The k-th smallest position of S.
Kth(S, k) == CHOOSE i \in S : Cardinality({j \in S : j < i}) = k - 1

\* The text of the row's name lookup, without surrounding white space.
NameText(row) == Strip(IF row.title.has THEN row.title.text ELSE row.bold.text)

\* C11: once the rows were processed, assets holds one entry for each row
\* whose extraction did not raise and gave a name, in document order, the
\* k-th entry coming from the k-th such row; rows before and after a raising
\* row are extracted all the same, and total_assets counts the entries.
C11_FailingRowIsSkipped ==
    (pc = "ex_balance" \/ pd.assets # <<>>) =>
        /\ Len(pd.assets) = Cardinality(Extracted(page.rows))
        /\ pd.total_assets = Cardinality(Extracted(page.rows))
        /\ \A k \in 1..Len(pd.assets) :
              LET row == page.rows[Kth(Extracted(page.rows), k)] IN
              /\ pd.assets[k][K_name] = NameText(row)
              /\ pd.assets[k] = ExtractAssetInfo(row)

\* The middle row of three raised; the rows around it were extracted.
C11_Witness ==
    /\ pc = "ex_ret" /\ Len(page.rows) = 3 /\ page.rows[2].throws
    /\ Len(pd.assets) = 2 /\ pd.total_assets = 2
    /\ pd.assets[1][K_name] = T_AAPL /\ pd.assets[2][K_name] = T_BTC

\* The row that the k-th entry of assets was extracted from.
RowOf(k) == page.rows[Kth(Extracted(page.rows), k)]

\* The row's profit/loss element: the first ".et-font-weight-normal" of
\* its third cell, looked at when the row has four cells or more.
PlElement(row) == IF Len(row.cells) >= 4 THEN row.cells[3].normal ELSE NoElem

\* C12: an entry whose row has a profit/loss element carries
\* profit_loss_percentage, with profit_loss_status "positive" when the
\* element has the class et-positive, "negative" when it has et-negative
\* (and not et-positive, which is tested first), and no profit_loss_status
\* when it has neither; an entry whose row has no such element has neither key.
C12_SignFollowsMarkerClass ==
    (pc = "ex_balance" \/ pd.assets # <<>>) =>
        \A k \in 1..Len(pd.assets) :
            LET e == PlElement(RowOf(k))
                a == pd.assets[k]
            IN  IF e.has
                THEN /\ HasKey(a, "profit_loss_percentage")
                     /\ "et-positive" \in e.classes =>
                            (HasKey(a, "profit_loss_status")
                             /\ a["profit_loss_status"] = S_positive)
                     /\ ("et-negative" \in e.classes /\ "et-positive" \notin e.classes) =>
                            (HasKey(a, "profit_loss_status")
                             /\ a["profit_loss_status"] = S_negative)
                     /\ ("et-positive" \notin e.classes /\ "et-negative" \notin e.classes) =>
                            ~HasKey(a, "profit_loss_status")
                ELSE /\ ~HasKey(a, "profit_loss_percentage")
                     /\ ~HasKey(a, "profit_loss_status")

\* A positive, a negative and an unmarked row were extracted side by side.
C12_Witness ==
    /\ pc = "ex_ret" /\ page = P_signs /\ Len(pd.assets) = 4
    /\ pd.assets[1]["profit_loss_status"] = S_positive
    /\ pd.assets[2]["profit_loss_status"] = S_negative
    /\ ~HasKey(pd.assets[3], "profit_loss_status")
    /\ pd.assets[3]["profit_loss_percentage"] = T_neg
    /\ pd.assets[4]["profit_loss_status"] = S_positive

\* The keys of the fields that are looked up in a row.
FieldKeys == {"name", "description", "direction", "invested_percentage",
              "profit_loss_percentage", "value_percentage", "sell_price", "buy_price",
              "avatar_url"}

\* The field's own lookup finds an element in the row.
LookupMatches(key, row) ==
    CASE key = "name"                   -> row.title.has \/ row.bold.has
      [] key = "description"            -> row.desc.has
      [] key = "direction"              -> Len(row.cells) >= 1 /\ row.cells[1].normal.has
      [] key = "invested_percentage"    -> Len(row.cells) >= 2 /\ row.cells[2].normal.has
      [] key = "profit_loss_percentage" -> Len(row.cells) >= 3 /\ row.cells[3].normal.has
      [] key = "value_percentage"       -> Len(row.cells) >= 4 /\ row.cells[4].normal.has
      [] key = "sell_price"             -> Len(row.cells) >= 5 /\ row.cells[5].rate.has
      [] key = "buy_price"              -> Len(row.cells) >= 6 /\ row.cells[6].rate.has
      [] key = "avatar_url"             -> row.avatar.has

\* What the field needs besides its own match: the number of cells the
\* column layout expects, a direction text that is not blank, an avatar src.
LayoutAllows(key, row) ==
    CASE key \in {"invested_percentage", "profit_loss_percentage", "value_percentage"}
                                        -> Len(row.cells) >= 4
      [] key \in {"sell_price", "buy_price"} -> Len(row.cells) >= 6
      [] key = "direction"              -> ~Blank(row.cells[1].normal.text)
      [] key = "avatar_url"             -> row.avatar.src # <<>>
      [] OTHER                          -> TRUE

\* C13 as stated: in every entry, each field's key is present exactly when
\* the field's own lookup matches in the row, whatever else the row holds.
C13_KeyIffOwnLookup ==
    (pc = "ex_balance" \/ pd.assets # <<>>) =>
        \A k \in 1..Len(pd.assets) : \A key \in FieldKeys :
            HasKey(pd.assets[k], key) <=> LookupMatches(key, RowOf(k))

\* C13, amended: in every entry, each field's key is present exactly when
\* the field's own lookup matches and the row's layout lets the lookup be
\* made (four cells for the three percentages, six for the two prices, a
\* direction text that is not blank, an avatar with a src); the other
\* fields play no part, a field that is left out gets no default value,
\* and alt_text goes with avatar_url.
C13_KeyIffLookupAndLayout ==
    (pc = "ex_balance" \/ pd.assets # <<>>) =>
        \A k \in 1..Len(pd.assets) :
            /\ \A key \in FieldKeys :
                  HasKey(pd.assets[k], key) <=>
                      (LookupMatches(key, RowOf(k)) /\ LayoutAllows(key, RowOf(k)))
            /\ HasKey(pd.assets[k], "alt_text") <=> HasKey(pd.assets[k], "avatar_url")
            /\ DOMAIN pd.assets[k] \subseteq
                  FieldKeys \cup {"alt_text", "profit_loss_status"}

\* An entry with both prices next to entries that leave them out: one with
\* four cells, one with three cells and no invested percentage although
\* its second cell matches, one with five cells, the fifth holding a rate.
C13_Witness ==
    /\ pc = "ex_ret" /\ page = P_short /\ Len(pd.assets) = 4
    /\ HasKey(pd.assets[1], "sell_price") /\ HasKey(pd.assets[1], "buy_price")
    /\ ~HasKey(pd.assets[2], "sell_price") /\ ~HasKey(pd.assets[2], "buy_price")
    /\ DOMAIN pd.assets[3] = {"name"}
    /\ HasKey(pd.assets[4], "value_percentage") /\ ~HasKey(pd.assets[4], "sell_price")
    /\ ~HasKey(pd.assets[4], "avatar_url")

\* C14: whatever the username, get_profile_url returns the base URL
\* followed by "/people/" and the username, character for character; the
\* URL contains the base domain and the username.
C14_ProfileUrlIsBasePeopleUser ==
    (mode = "config" /\ calls > 0) =>
        /\ profile_url = S_base_url \o S_people \o username
        /\ Contains(profile_url, username)
        /\ Contains(profile_url, S_base_url)
        /\ SubSeq(profile_url, Len(S_base_url) + Len(S_people) + 1, Len(profile_url))
               = username

\* A username holding a brace and a blank was put in as it is.
C14_Witness ==
    /\ mode = "config" /\ calls > 0 /\ username = <<"{", " ">>
    /\ profile_url = S_base_url \o S_people \o <<"{", " ">>

\* C15: two calls of _extract_portfolio_from_page on the same page that
\* leave the try block at the same point, and so two calls that both run
\* to the return statement, return equal records: what the first call
\* left behind has no part in what a later call returns.
C15_SamePageSameRecord ==
    (mode = "unit" /\ pc = "ex_ret" /\ first_run.has /\ first_run.ended = ex_end) =>
        pd = first_run.pd

\* A later call ran to its return on a page with two entries, after a first
\* call that did too and returned the same record.
C15_Witness ==
    /\ mode = "unit" /\ pc = "ex_ret"
    /\ first_run.has /\ first_run.ended = "return" /\ ex_end = "return"
    /\ Len(pd.assets) = 2 /\ pd.user.has /\ pd.last_updated.has
    /\ pd = first_run.pd

\* The names of the record's entries.
EntryNames(d) == {d.assets[i]["name"] : i \in {j \in 1..Len(d.assets) : HasKey(d.assets[j], "name")}}

S_no_assets_found == <<"N","o"," ","a","s","s","e","t","s"," ","f","o","u","n","d">>

\* C16 as stated: the table of a record with assets contains the user
\* and the name of every entry; the table of a record without assets
\* contains the user header and "No assets found".
C16_TableShowsEveryName ==
    (mode = "format" /\ calls > 0 /\ ~portfolio_data.empty) =>
        /\ Contains(output, S_portfolio_for \o GetStr(portfolio_data.user, S_unknown))
        /\ portfolio_data.assets # <<>> =>
              \A n \in EntryNames(portfolio_data) : Contains(output, n)
        /\ portfolio_data.assets = <<>> => Contains(output, S_no_assets_found)

\* C16, amended: the table of a record with assets contains the user and
\* every entry's name of at most 30 characters in full; of a longer name
\* it contains the first 27 characters followed by "..."; the table
\* of a record without assets contains the user header and "No assets found".
C16_TableShowsNamesUpToWidth ==
    (mode = "format" /\ calls > 0 /\ ~portfolio_data.empty) =>
        /\ Contains(output, S_portfolio_for \o GetStr(portfolio_data.user, S_unknown))
        /\ portfolio_data.assets # <<>> =>
              \A n \in EntryNames(portfolio_data) :
                  IF Len(n) <= 30 THEN Contains(output, n)
                  ELSE Contains(output, SubSeq(n, 1, 27) \o <<".",".",".">>)
        /\ portfolio_data.assets = <<>> => Contains(output, S_no_assets_found)

\* A table with a name of 30 characters in full next to one of 31 cut short.
C16_Witness ==
    /\ mode = "format" /\ calls > 0 /\ Len(portfolio_data.assets) = 2
    /\ portfolio_data.assets[1]["name"] = T_name30
    /\ portfolio_data.assets[2]["name"] = T_name31
    /\ portfolio_data.user = StrValue(T_testuser)
    /\ Contains(output, T_testuser) /\ Contains(output, T_name30)
    /\ ~Contains(output, T_name31)

\* The selector loop has ended and the click, if any, is next.
AboutToClick == pc = "gpd_click"

\* The click, if any, was made and the extraction is next.
AboutToExtract == pc = "ex_begin" /\ "locate" \in steps

\* The control was chosen as the first displayed and enabled element of the
\* list of the selector the loop stopped at, or none was after every selector.
ChosenIsFirstUsable ==
    IF portfolio_element = NoElement
    THEN sel_i = NumPortfolioSelectors + 1 /\ elements = <<>>
    ELSE /\ portfolio_element.sel = sel_i
         /\ sel_i \in 1..NumPortfolioSelectors
         /\ portfolio_element.idx \in 1..Len(elements)
         /\ Usable(elements[portfolio_element.idx])
         /\ \A j \in 1..(portfolio_element.idx - 1) : ~Usable(elements[j])

\* The call does not end between the selector loop and the extraction.
ExtractionFollows ==
    /\ pc \in {"gpd_locate", "gpd_click", "ex_begin"} => gpd_result = "pending"
    /\ (pc = "gpd_ret" /\ "locate" \in steps) =>
          ("extract" \in steps /\ gpd_result = "record")

\* C17 as stated: the selectors are tried in list order and the chosen control
\* is the first visible and enabled element of the first selector that has
\* one; the direct click is attempted first and the script click only after
\* a failed direct click; extraction follows in every case.
C17_ScriptClickOnlyAfterDirectClick ==
    /\ AboutToClick => (ChosenIsFirstUsable /\ passed_over = "")
    /\ AboutToExtract =>
          /\ portfolio_element = NoElement => clicks = <<>>
          /\ clicks # <<>> => clicks[1].kind = "direct"
          /\ \A i \in 1..Len(clicks) :
                clicks[i].kind = "script" =>
                    (i = 2 /\ clicks[1].kind = "direct" /\ ~clicks[1].ok)
    /\ ExtractionFollows

\* C17: the selectors are tried in list order and the chosen control is the
\* first visible and enabled element of the first selector whose lookup and
\* checks yield one before any of them raises; the control is scrolled to
\* and then clicked directly, and the script click is attempted exactly when
\* the scroll or the direct click raised; extraction follows in every case.
C17_ScriptClickAfterAnyFailure ==
    /\ AboutToClick => (ChosenIsFirstUsable /\ passed_over # "missed")
    /\ AboutToExtract =>
          /\ portfolio_element = NoElement => clicks = <<>>
          /\ portfolio_element # NoElement =>
                /\ Len(clicks) \in 1..2
                /\ clicks[Len(clicks)].kind = "script" \/ clicks[Len(clicks)].ok
                /\ \A i \in 1..Len(clicks) :
                      /\ clicks[i].kind = "direct" => i = 1
                      /\ clicks[i].kind = "script" =>
                            (i = Len(clicks) /\ (i = 2 => ~clicks[1].ok))
    /\ ExtractionFollows

\* The second element of the third selector's list was chosen, the direct
\* click and the script click both failed, and the extraction is next.
C17_Witness ==
    /\ AboutToExtract
    /\ portfolio_element = [sel |-> 3, idx |-> 2]
    /\ Len(clicks) = 2 /\ ~clicks[1].ok /\ ~clicks[2].ok

\* The entries are tagged as found by the text fallback.
Tagged(assets) ==
    \A i \in 1..Len(assets) :
        HasKey(assets[i], K_extracted_from)
            /\ assets[i][K_extracted_from] = S_text_fallback

\* C18: the text fallback is applied when, and only when, the structured
\* extraction finds no rows at all: then the record's entries are what
\* _extract_assets_from_text makes of the page's text (at most 10, the first
\* matching lines in line order, every one tagged text_fallback), and
\* otherwise no entry carries the tag.
C18_TextFallbackWhenNoRows ==
    (pc = "ex_ret" /\ ex_end \in {"balance", "return"}) =>
        IF page.rows = <<>>
        THEN /\ pd.assets = AssetsFromText(PageText(page))
             /\ Len(pd.assets) <= FallbackCap
             /\ Tagged(pd.assets)
        ELSE \A i \in 1..Len(pd.assets) : ~HasKey(pd.assets[i], K_extracted_from)

\* The browser processes launched and not quit.
Alive == {b \in 1..launched : quits[b] = 0}

\* C19: when _setup_driver of a fresh extractor finishes, by returning or by
\* raising, every browser it launched is the one held in self.driver or has
\* been quit, so at most one launched browser is alive.
C19_StartupLeaksNoBrowser ==
    (pc \in {"setup_ret", "setup_raise"} /\ (mode = "scoped" \/ calls = 1)) =>
        /\ \A b \in 1..launched : b = driver \/ quits[b] >= 1
        /\ Cardinality(Alive) <= 1

\* The session's browser has been quit.
Released == driver # 0 /\ quits[driver] >= 1

\* C20: after a session has been released a further release does not quit
\* the browser a second time, a further get_portfolio_data call is rejected
\* with the not-initialized error, and no navigation command is issued to a
\* browser that has been quit.
C20_ClosedAfterRelease ==
    /\ \A b \in 1..launched : quits[b] <= 1
    /\ (Released /\ pc = "gpd_ret") => gpd_result = "raise_not_initialized"
    /\ "navigate" \in steps => DriverAlive
====
